---------------------------- MODULE Spec2Model ----------------------------
(***************************************************************************)
(* A model of jmeslog: change entries staged as files under                *)
(* .changes/next-release, consolidated into .changes/<version>.json.       *)
(*                                                                         *)
(* A Python str is a sequence of one-character strings, so that file names *)
(* are built, compared and taken apart the way the code does it.           *)
(***************************************************************************)
EXTENDS Naturals, Integers, Sequences, FiniteSets, TLC

-----------------------------------------------------------------------------
(* Bounds of the model *)

\* time.monotonic_ns() is read between StartClock + 1 and MaxClock
StartClock == 7
MaxClock == 10
\* the most files of next-release when EntryFileWriter is called on its own
MaxStaged == 3
\* the longest change list handed to version_bump_type
MaxChanges == 3
\* the largest major, minor or patch number handed to determine_next_version
MaxPart == 10
\* the most release files of a change directory found as it is
MaxDirFiles == 3
\* the longest list of entries handed to from_dict
MaxEntries == 2
\* the most lines of an entry file handed to parse_contents
MaxLines == 3

-----------------------------------------------------------------------------
(* Python str *)

Digits == <<"0", "1", "2", "3", "4", "5", "6", "7", "8", "9">>
Lower == <<"a", "b", "c", "d", "e", "f", "g", "h", "i", "j", "k", "l", "m",
           "n", "o", "p", "q", "r", "s", "t", "u", "v", "w", "x", "y", "z">>

IndexOf(seq, c) == CHOOSE i \in 1..Len(seq) : seq[i] = c
InSeq(seq, c) == \E i \in 1..Len(seq) : seq[i] = c

IsDigit(c) == InSeq(Digits, c)
DigitVal(c) == IndexOf(Digits, c) - 1

\* ord(c), for the characters the model uses
Ord(c) ==
  CASE c = " " -> 32
    [] c = "-" -> 45
    [] c = "." -> 46
    [] IsDigit(c) -> 48 + DigitVal(c)
    [] InSeq(Lower, c) -> 96 + IndexOf(Lower, c)

\* a < b on str: by code point, a proper prefix first
RECURSIVE StrLess(_, _)
StrLess(a, b) ==
  IF a = <<>> THEN b # <<>>
  ELSE IF b = <<>> THEN FALSE
  ELSE IF Head(a) = Head(b) THEN StrLess(Tail(a), Tail(b))
  ELSE Ord(Head(a)) < Ord(Head(b))

\* str(n) for n >= 0
RECURSIVE Str(_)
Str(n) == IF n < 10 THEN <<Digits[n + 1]>> ELSE Str(n \div 10) \o <<Digits[(n % 10) + 1]>>

IsNumeral(s) == s # <<>> /\ \A i \in 1..Len(s) : IsDigit(s[i])

\* int(s) for a string of digits (leading zeros allowed)
RECURSIVE ToInt(_)
ToInt(s) == IF s = <<>> THEN 0 ELSE 10 * ToInt(SubSeq(s, 1, Len(s) - 1)) + DigitVal(s[Len(s)])

\* s.split(sep) for a one-character sep
RECURSIVE Split(_, _)
Split(s, sep) ==
  IF ~InSeq(s, sep) THEN <<s>>
  ELSE LET i == CHOOSE k \in 1..Len(s) : s[k] = sep /\ \A j \in 1..(k - 1) : s[j] # sep
       IN <<SubSeq(s, 1, i - 1)>> \o Split(SubSeq(s, i + 1, Len(s)), sep)

\* sep.join(parts)
RECURSIVE Join(_, _)
Join(parts, sep) ==
  IF parts = <<>> THEN <<>>
  ELSE IF Len(parts) = 1 THEN parts[1]
  ELSE parts[1] \o sep \o Join(Tail(parts), sep)

EndsWith(s, suffix) ==
  Len(s) >= Len(suffix) /\ SubSeq(s, Len(s) - Len(suffix) + 1, Len(s)) = suffix

StartsWith(s, prefix) == Len(s) >= Len(prefix) /\ SubSeq(s, 1, Len(prefix)) = prefix

\* str.isspace, for the characters the model uses
IsSpace(c) == c \in {" ", "\t", "\n"}

\* s.lstrip()
RECURSIVE LStrip(_)
LStrip(s) == IF s # <<>> /\ IsSpace(Head(s)) THEN LStrip(Tail(s)) ELSE s

\* s.rstrip()
RECURSIVE RStrip(_)
RStrip(s) ==
  IF s # <<>> /\ IsSpace(s[Len(s)]) THEN RStrip(SubSeq(s, 1, Len(s) - 1)) ELSE s

\* s.strip()
Strip(s) == RStrip(LStrip(s))

\* s.splitlines(), the lines ending at "\n": no last empty line after the
\* last line end
SplitLines(s) ==
  IF s = <<>> THEN <<>>
  ELSE LET parts == Split(s, "\n")
       IN IF parts[Len(parts)] = <<>> THEN SubSeq(parts, 1, Len(parts) - 1) ELSE parts

DotJson == <<".", "j", "s", "o", "n">>
\* f[:-5]
StripJson(f) == SubSeq(f, 1, Len(f) - 5)

\* every order in which os.listdir may return the names of a set
RECURSIVE Listings(_)
Listings(S) ==
  IF S = {} THEN {<<>>}
  ELSE UNION {{<<x>> \o rest : rest \in Listings(S \ {x})} : x \in S}

-----------------------------------------------------------------------------
(* The strings the model draws its inputs from *)

Empty == <<>>
feature == <<"f", "e", "a", "t", "u", "r", "e">>
bugfix == <<"b", "u", "g", "f", "i", "x">>
enhancement == <<"e", "n", "h", "a", "n", "c", "e", "m", "e", "n", "t">>
notafeature == <<"n", "o", "t", "a", "f", "e", "a", "t", "u", "r", "e">>
foo == <<"f", "o", "o">>
a_b == <<"a", "-", "b">>
bar == <<"b", "a", "r">>
notes == <<"n", "o", "t", "e", "s">>
next_release_name == <<"n", "e", "x", "t", "-", "r", "e", "l", "e", "a", "s", "e">>

-----------------------------------------------------------------------------
(* model.py *)

PATCH_VERSION == "patch"
MINOR_VERSION == "minor"
MAJOR_VERSION == "major"
VersionBump == {PATCH_VERSION, MINOR_VERSION, MAJOR_VERSION}

\* EntrySchema(): the default schema
DefaultSchema == [type |-> <<feature, bugfix, enhancement>>, category |-> <<>>]

\* fields(schema) and fields(entry), in declaration order
SchemaFields == <<"type", "category">>
EntryFields == <<"type", "category", "description">>

JMESLogEntry(t, c, d) == [type |-> t, category |-> c, description |-> d]

\* JMESLogEntry.empty()
EmptyEntry == JMESLogEntry(Empty, Empty, Empty)

\* JMESLogEntry.to_dict / asdict(entry); json.dumps then json.load gives it back
EntryToDict(entry) == [k \in {"type", "category", "description"} |-> entry[k]]

\* JMESLogEntry(**data)
EntryFromDict(data) == JMESLogEntry(data["type"], data["category"], data["description"])

\* JMESLogEntry.is_completed
RECURSIVE AllNonEmpty(_, _)
AllNonEmpty(entry, fields) ==
  IF fields = <<>> THEN TRUE
  ELSE IF entry[Head(fields)] = Empty THEN FALSE
  ELSE AllNonEmpty(entry, Tail(fields))

is_completed(entry) == AllNonEmpty(entry, EntryFields)

CURRENT_SCHEMA_VERSION == <<"0", ".", "2">>
OLD_SCHEMA_VERSION == <<"0", ".", "1">>

\* JMESLogEntryCollection(changes=..., schema_version='0.2', summary='')
JMESLogEntryCollection(changes, schema_version, summary) ==
  [changes |-> changes, schema_version |-> schema_version, summary |-> summary]

NewCollection(changes) == JMESLogEntryCollection(changes, CURRENT_SCHEMA_VERSION, Empty)

\* the loop of version_bump_type, entry by entry
RECURSIVE BumpLoop(_, _)
BumpLoop(bump_type, changes) ==
  IF changes = <<>> THEN bump_type
  ELSE BumpLoop(IF Head(changes).type = feature THEN MINOR_VERSION ELSE bump_type,
                Tail(changes))

\* a version_bump_type that lets the last entry decide
version_bump_type_last_entry(collection) ==
  IF collection.changes # <<>>
     /\ collection.changes[Len(collection.changes)].type = feature
  THEN MINOR_VERSION
  ELSE PATCH_VERSION

\* JMESLogEntryCollection.version_bump_type
version_bump_type(collection) == BumpLoop(PATCH_VERSION, collection.changes)

\* a to_dict that writes the current format tag whatever the collection's
CollectionToDictCurrentTag(collection) ==
  ("schema-version" :> CURRENT_SCHEMA_VERSION)
  @@ ("changes" :> [i \in 1..Len(collection.changes) |->
                      EntryToDict(collection.changes[i])])

\* a to_dict that gives the key 'summary' whether there is a summary or not
CollectionToDictWithSummary(collection) ==
  ("schema-version" :> collection.schema_version)
  @@ ("changes" :> [i \in 1..Len(collection.changes) |->
                      EntryToDict(collection.changes[i])])
  @@ ("summary" :> collection.summary)

\* JMESLogEntryCollection.to_dict
CollectionToDict(collection) ==
  LET result == ("schema-version" :> collection.schema_version)
                @@ ("changes" :> [i \in 1..Len(collection.changes) |->
                                    EntryToDict(collection.changes[i])])
  IN IF collection.summary # Empty
     THEN result @@ ("summary" :> collection.summary)
     ELSE result

\* the value of a call: exc is "" when it returns val, else the exception raised
Return(val) == [exc |-> "", val |-> val]
Raise(exc) == [exc |-> exc, val |-> <<>>]

\* json.load of a release file gives a dict, modelled as a function of its
\* keys, or a list, modelled as JsonArray(items), so that the empty list and
\* the empty dict differ as they do in Python
JsonArray(items) == [array |-> items]

\* isinstance(release_info, list)
IsList(release_info) == DOMAIN release_info = {"array"}

\* JMESLogEntry(**entry) raises TypeError unless the keys are the three fields
IsEntryObject(entry) == DOMAIN entry = {"type", "category", "description"}

\* a _load_old_format that tags the collection as the current format
load_old_format_current_tag(release_info) ==
  IF \E i \in 1..Len(release_info.array) : ~IsEntryObject(release_info.array[i])
  THEN Raise("TypeError")
  ELSE Return(NewCollection([i \in 1..Len(release_info.array) |->
                               EntryFromDict(release_info.array[i])]))

\* JMESLogEntryCollection._load_old_format
load_old_format(release_info) ==
  IF \E i \in 1..Len(release_info.array) : ~IsEntryObject(release_info.array[i])
  THEN Raise("TypeError")
  ELSE Return(JMESLogEntryCollection(
                [i \in 1..Len(release_info.array) |-> EntryFromDict(release_info.array[i])],
                OLD_SCHEMA_VERSION, Empty))

\* JMESLogEntryCollection._load_new_format
load_new_format(release_info) ==
  IF "schema-version" \notin DOMAIN release_info THEN Raise("KeyError")
  ELSE IF "changes" \notin DOMAIN release_info THEN Raise("KeyError")
  ELSE IF \E i \in 1..Len(release_info["changes"]) : ~IsEntryObject(release_info["changes"][i])
  THEN Raise("TypeError")
  ELSE Return(JMESLogEntryCollection(
                [i \in 1..Len(release_info["changes"]) |->
                   EntryFromDict(release_info["changes"][i])],
                release_info["schema-version"],
                IF "summary" \in DOMAIN release_info THEN release_info["summary"] ELSE Empty))

\* JMESLogEntryCollection.from_dict
from_dict(release_info) ==
  IF IsList(release_info) THEN load_old_format(release_info)
  ELSE load_new_format(release_info)

-----------------------------------------------------------------------------
(* core.py: validation *)

MustBeOneOf(field, allowed, value) ==
  [msg |-> "must be one of", field |-> field, allowed |-> allowed, received |-> value]

CannotBeEmpty(field) ==
  [msg |-> "cannot be empty", field |-> field, allowed |-> <<>>, received |-> <<>>]

\* the first loop of validate_change_entry
RECURSIVE AllowedValueErrors(_, _, _)
AllowedValueErrors(entry, schema, fields) ==
  IF fields = <<>> THEN <<>>
  ELSE LET name == Head(fields)
           value == entry[name]
           allowed_values == schema[name]
       IN (IF allowed_values # <<>> /\ ~InSeq(allowed_values, value)
           THEN <<MustBeOneOf(name, allowed_values, value)>>
           ELSE <<>>)
          \o AllowedValueErrors(entry, schema, Tail(fields))

\* the second loop of validate_change_entry
RECURSIVE EmptyValueErrors(_, _)
EmptyValueErrors(entry, fields) ==
  IF fields = <<>> THEN <<>>
  ELSE (IF entry[Head(fields)] = Empty THEN <<CannotBeEmpty(Head(fields))>> ELSE <<>>)
       \o EmptyValueErrors(entry, Tail(fields))

\* a validate_change_entry that stops at the first violation
validate_change_entry_first_only(entry, schema) ==
  LET errors == AllowedValueErrors(entry, schema, SchemaFields)
                \o EmptyValueErrors(entry, EntryFields)
  IN IF errors = <<>> THEN <<>> ELSE <<errors[1]>>

\* validate_change_entry: the errors it collects; it raises
\* ValidationError(errors) when they are not empty
validate_change_entry(entry, schema) ==
  AllowedValueErrors(entry, schema, SchemaFields) \o EmptyValueErrors(entry, EntryFields)

-----------------------------------------------------------------------------
(* core.py: versions *)

\* packaging's Version(x) accepts x made of numerals joined by dots (the
\* other forms of PEP 440 use characters the model's names do not mix in)
IsVersion(x) ==
  LET parts == Split(x, ".") IN \A i \in 1..Len(parts) : IsNumeral(parts[i])

RECURSIVE StripTrailingZeros(_)
StripTrailingZeros(release) ==
  IF release # <<>> /\ release[Len(release)] = 0
  THEN StripTrailingZeros(SubSeq(release, 1, Len(release) - 1))
  ELSE release

\* the comparison key of Version(x): the release numbers, trailing zeros dropped
VersionKey(x) ==
  LET parts == Split(x, ".")
  IN StripTrailingZeros([i \in 1..Len(parts) |-> ToInt(parts[i])])

\* a < b on tuples of numbers
RECURSIVE TupleLess(_, _)
TupleLess(a, b) ==
  IF a = <<>> THEN b # <<>>
  ELSE IF b = <<>> THEN FALSE
  ELSE IF Head(a) = Head(b) THEN TupleLess(Tail(a), Tail(b))
  ELSE Head(a) < Head(b)

\* versions compared as strings
VersionLessLexical(a, b) == StrLess(a, b)

\* Version(a) < Version(b)
VersionLess(a, b) == TupleLess(VersionKey(a), VersionKey(b))

\* key(a) < key(b) for the key of a sorted() call: Version(name), or the name
KeyLess(key, a, b) == IF key = "Version" THEN VersionLess(a, b) ELSE StrLess(a, b)

\* sorted(xs, key=...) as a stable insertion sort
RECURSIVE InsertSorted(_, _, _)
InsertSorted(key, x, sorted) ==
  IF sorted = <<>> THEN <<x>>
  ELSE IF KeyLess(key, x, Head(sorted)) THEN <<x>> \o sorted
  ELSE <<Head(sorted)>> \o InsertSorted(key, x, Tail(sorted))

RECURSIVE Sorted(_, _)
Sorted(key, xs) ==
  IF xs = <<>> THEN <<>>
  ELSE InsertSorted(key, xs[Len(xs)], Sorted(key, SubSeq(xs, 1, Len(xs) - 1)))

\* sorted_versioned_releases, given what os.listdir(change_dir) returned
sorted_versioned_releases(listing) ==
  LET json_names == SelectSeq(listing, LAMBDA f : EndsWith(f, DotJson))
      files == [i \in 1..Len(json_names) |-> StripJson(json_names[i])]
  IN IF \E i \in 1..Len(files) : ~IsVersion(files[i])
     THEN Raise("InvalidVersion")
     ELSE Return(Sorted("Version", files))

\* a find_last_released_version that takes the first of the sorted versions
find_first_released_version(listing) ==
  LET results == sorted_versioned_releases(listing)
  IN IF results.exc # "" THEN results
     ELSE IF results.val # <<>> THEN Return(results.val[1])
     ELSE Return(<<"0", ".", "0", ".", "0">>)

\* find_last_released_version
find_last_released_version(listing) ==
  LET results == sorted_versioned_releases(listing)
  IN IF results.exc # "" THEN results
     ELSE IF results.val # <<>> THEN Return(results.val[Len(results.val)])
     ELSE Return(<<"0", ".", "0", ".", "0">>)

\* a determine_next_version that resets no number
determine_next_version_no_reset(last_released_version, bump_type) ==
  LET parts == Split(last_released_version, ".")
      i == CASE bump_type = PATCH_VERSION -> 3
             [] bump_type = MINOR_VERSION -> 2
             [] OTHER -> 1
  IN Return(Join([parts EXCEPT ![i] = Str(ToInt(parts[i]) + 1)], <<".">>))

\* a determine_next_version that carries a patch number over 9 into the minor
determine_next_version_carry(last_released_version, bump_type) ==
  LET parts == Split(last_released_version, ".")
      x == ToInt(parts[1])
      y == ToInt(parts[2])
      z == ToInt(parts[3])
      next == CASE bump_type = PATCH_VERSION ->
                     IF z >= 9 THEN <<x, y + 1, 0>> ELSE <<x, y, z + 1>>
                [] bump_type = MINOR_VERSION -> <<x, y + 1, 0>>
                [] OTHER -> <<x + 1, 0, 0>>
  IN Return(Str(next[1]) \o <<".">> \o Str(next[2]) \o <<".">> \o Str(next[3]))

\* determine_next_version
determine_next_version(last_released_version, bump_type) ==
  LET parts == Split(last_released_version, ".")
      n == Len(parts)
      Incr(i) == Str(ToInt(parts[i]) + 1)
  IN CASE bump_type = PATCH_VERSION ->
            IF n < 3 THEN Raise("IndexError")
            ELSE IF ~IsNumeral(parts[3]) THEN Raise("ValueError")
            ELSE Return(Join([parts EXCEPT ![3] = Incr(3)], <<".">>))
       [] bump_type = MINOR_VERSION ->
            IF n < 2 THEN Raise("IndexError")
            ELSE IF ~IsNumeral(parts[2]) THEN Raise("ValueError")
            ELSE IF n < 3 THEN Raise("IndexError")
            ELSE Return(Join([parts EXCEPT ![2] = Incr(2), ![3] = <<"0">>], <<".">>))
       [] bump_type = MAJOR_VERSION ->
            IF ~IsNumeral(parts[1]) THEN Raise("ValueError")
            ELSE IF n < 3 THEN Raise("IndexError")
            ELSE Return(Join([parts EXCEPT ![1] = Incr(1), ![2] = <<"0">>, ![3] = <<"0">>],
                             <<".">>))
       [] OTHER -> Return(last_released_version)

-----------------------------------------------------------------------------
(* core.py: rendering *)

\* reversed(list(...))
Reverse(s) == [i \in 1..Len(s) |-> s[Len(s) + 1 - i]]

\* the loop of load_all_changes: releases as the list of its items, in the
\* order in which the keys were inserted
RECURSIVE LoadReleases(_, _)
LoadReleases(files, version_numbers) ==
  IF version_numbers = <<>> THEN Return(<<>>)
  ELSE LET n == Len(version_numbers)
           releases == LoadReleases(files, SubSeq(version_numbers, 1, n - 1))
           collection == from_dict(files[version_numbers[n] \o DotJson])
       IN IF releases.exc # "" THEN releases
          ELSE IF collection.exc # "" THEN collection
          ELSE Return(Append(releases.val, <<version_numbers[n], collection.val>>))

\* load_all_changes, given what os.listdir(change_dir) returned
load_all_changes(files, listing) ==
  LET version_numbers == sorted_versioned_releases(listing)
  IN IF version_numbers.exc # "" THEN version_numbers
     ELSE LoadReleases(files, version_numbers.val)

\* render_changes: the releases the template iterates over, in order; changes
\* is the list of the items of the mapping, in insertion order
render_changes(changes) == Reverse(changes)

\* DEFAULT_RENDER_TEMPLATE: the text before the loop over the releases
TemplateBanner ==
  <<"=", "=", "=", "=", "=", "=", "=", "=", "=", "\n", "C", "H", "A", "N", "G", "E", "L", "O", "G", "\n", "=", "=", "=", "=", "=", "=", "=", "=", "=", "\n", "\n">>

\* {{ '=' * release|length }}
Underline(release) == [i \in 1..Len(release) |-> "="]

\* DEFAULT_RENDER_TEMPLATE: the loop over changes.changes. Each change gives
\* the line end and '* ' before the expression of the type, then the three
\* expressions with colons between; the line end after the description is
\* stripped by the '-' of its expression
RECURSIVE TemplateChanges(_)
TemplateChanges(changes) ==
  IF changes = <<>> THEN <<>>
  ELSE LET change == Head(changes)
       IN <<"\n", "*", " ">> \o change.type \o <<":">> \o change.category \o <<":">>
            \o change.description \o TemplateChanges(Tail(changes))

\* DEFAULT_RENDER_TEMPLATE: the loop over the releases. The line end before
\* the if is stripped by its '-', the one after the summary by the '-' of the
\* expression
RECURSIVE TemplateReleases(_)
TemplateReleases(releases) ==
  IF releases = <<>> THEN <<>>
  ELSE LET release == Head(releases)[1]
           changes == Head(releases)[2]
       IN <<"\n">> \o release \o <<"\n">> \o Underline(release)
            \o (IF changes.summary # <<>> THEN <<"\n">> \o changes.summary ELSE <<>>)
            \o <<"\n">> \o TemplateChanges(changes.changes) \o <<"\n">>
            \o TemplateReleases(Tail(releases))

\* jinja2.Template(DEFAULT_RENDER_TEMPLATE).render(releases=releases): of the
\* two line ends that end the template, jinja2 drops the last
DEFAULT_RENDER_TEMPLATE(releases) ==
  TemplateBanner \o TemplateReleases(releases) \o <<"\n">>

\* the loop of render_single_release_changes
RECURSIVE SingleReleaseLines(_)
SingleReleaseLines(changes) ==
  IF changes = <<>> THEN <<>>
  ELSE LET change == Head(changes)
           description == Join(SplitLines(change.description), <<"\n", " ", " ">>)
       IN <<"*", " ">> \o change.type \o <<":">> \o change.category \o <<":">>
            \o description \o <<"\n">> \o SingleReleaseLines(Tail(changes))

\* render_single_release_changes: what it writes to out
render_single_release_changes(change_collection) ==
  SingleReleaseLines(change_collection.changes) \o <<"\n", "\n">>

-----------------------------------------------------------------------------
(* The change directory *)

VARIABLES
  release_files,     \* the regular files of the change directory: name -> content
  next_release_dir,  \* whether the directory next-release exists
  next_release,      \* the files of next-release: name -> content
  clock,             \* the last value time.monotonic_ns() returned
  staged,            \* history: the names written into next-release, in order
  running,           \* the runs in progress side by side, each with what it holds
  last               \* the last call: what was called and what came of it

vars == <<release_files, next_release_dir, next_release, clock, staged, running, last>>

fs == <<release_files, next_release_dir, next_release>>

\* a directory without files
NoFiles == <<>>

\* open(name, 'w') and write: the file is created, or its content replaced
WriteFile(dir, name, content) == (name :> content) @@ dir

\* the names os.listdir(change_dir) returns, in any order
ChangeDirNames ==
  DOMAIN release_files \cup (IF next_release_dir THEN {next_release_name} ELSE {})

\* string.ascii_letters + string.digits, as far as the model's strings go
IsValidChar(ch) == InSeq(Lower, ch) \/ IsDigit(ch)

\* EntryFileWriter._random_filename(next_release, f'{entry.type}-{short_summary}')
\* for the clock reading t and the random number r
random_filename(entry, t, r) ==
  LET short_summary == SelectSeq(entry.category, IsValidChar)
      filename == entry.type \o <<"-">> \o short_summary
  IN Str(t) \o <<"-">> \o filename \o <<"-">> \o Str(r) \o DotJson

\* what a call leaves in `last`
Call(cmd) ==
  [cmd |-> cmd, exc |-> "", ret |-> -1, file |-> <<>>,
   changes |-> <<>>, value |-> <<>>, arg |-> <<>>, auto |-> FALSE,
   query_for |-> "", bump |-> "", versions |-> <<>>,
   schema_version |-> <<>>, summary |-> <<>>, input |-> <<>>, errors |-> <<>>,
   called |-> FALSE, out |-> <<>>]

\* the processes that may run cmd_new_release side by side
Procs == {1, 2}

\* a run of cmd_new_release: where it is (pc), its --release-version (explicit,
\* release_version), its local variables changes and next_version, the
\* release file it wrote and the exception that ended it
Run(pc, explicit, release_version) ==
  [pc |-> pc, explicit |-> explicit, release_version |-> release_version,
   changes |-> NewCollection(<<>>), next_version |-> <<>>, release_file |-> <<>>,
   exc |-> ""]

\* no run in progress
NoneRunning == [p \in Procs |-> Run("idle", FALSE, <<>>)]

-----------------------------------------------------------------------------
(* core.py: the entry recorder *)

\* f.name for f in fields(entry), as str
FieldName(name) ==
  CASE name = "type" -> <<"t", "y", "p", "e">>
    [] name = "category" -> <<"c", "a", "t", "e", "g", "o", "r", "y">>
    [] name = "description" -> <<"d", "e", "s", "c", "r", "i", "p", "t", "i", "o", "n">>

\* line.startswith(line_starts), line_starts being 'type:', 'category:',
\* 'description:'
StartsWithField(line) ==
  \E i \in 1..Len(EntryFields) : StartsWith(line, FieldName(EntryFields[i]) \o <<":">>)

\* a loop body that keeps the first value given for a field
ParseLineKeepingFirst(entry, raw_line) ==
  LET line == LStrip(raw_line)
  IN IF StartsWith(line, <<"#">>) \/ line = <<>> THEN entry
     ELSE IF StartsWithField(line)
     THEN LET parts == Split(line, ":")
              field_name == parts[1]
              remaining == Join(Tail(parts), <<":">>)
              name == CHOOSE n \in {"type", "category", "description"} :
                        FieldName(n) = field_name
          IN IF entry[name] # Empty THEN entry
             ELSE [entry EXCEPT ![name] = Strip(remaining)]
     ELSE entry

\* the body of the loop of parse_contents, for one line
ParseLine(entry, raw_line) ==
  LET line == LStrip(raw_line)
  IN IF StartsWith(line, <<"#">>) \/ line = <<>> THEN entry
     ELSE IF StartsWithField(line)
     THEN LET parts == Split(line, ":")
              field_name == parts[1]
              remaining == Join(Tail(parts), <<":">>)
              name == CHOOSE n \in {"type", "category", "description"} :
                        FieldName(n) = field_name
          IN [entry EXCEPT ![name] = Strip(remaining)]
     ELSE entry

\* the loop of parse_contents
RECURSIVE ParseLines(_, _)
ParseLines(entry, lines) ==
  IF lines = <<>> THEN entry
  ELSE ParseLines(ParseLine(entry, Head(lines)), Tail(lines))

\* EntryFileParser.parse_contents
parse_contents(contents) ==
  IF Strip(contents) = <<>> THEN EmptyEntry
  ELSE ParseLines(EmptyEntry, SplitLines(contents))

\* an _update_values_from_new_entry that copies every field, empty or not
update_values_erasing(entry, new_entry) ==
  [k \in {"type", "category", "description"} |-> new_entry[k]]

\* EditorRetriever._update_values_from_new_entry
update_values_from_new_entry(entry, new_entry) ==
  [k \in {"type", "category", "description"} |->
     IF new_entry[k] # Empty THEN new_entry[k] ELSE entry[k]]

\* a complete_entry that prompts only for a missing description
prompts_for_description(entry) == entry.description = Empty

\* whether EntryGenerator.complete_entry calls retriever.prompt_entry_values
prompts_entry_values(entry) == ~is_completed(entry)

\* EntryGenerator.complete_entry; parsed_entry is what the editor session gave
complete_entry(entry, parsed_entry) ==
  IF prompts_entry_values(entry) THEN update_values_from_new_entry(entry, parsed_entry)
  ELSE entry

\* a load_next_changes that reads the files in the order listed
load_next_changes_unsorted(dir_exists, files, listing) ==
  IF ~dir_exists THEN Raise("NoChangesFoundError")
  ELSE Return(NewCollection([i \in 1..Len(listing) |-> EntryFromDict(files[listing[i]])]))

\* a load_next_changes that takes a missing next-release for an empty one
load_next_changes_missing_is_empty(dir_exists, files, listing) ==
  IF ~dir_exists THEN Return(NewCollection(<<>>))
  ELSE LET names == Sorted("name", listing)
       IN Return(NewCollection([i \in 1..Len(names) |-> EntryFromDict(files[names[i]])]))

\* load_next_changes, given what os.listdir(next_release) returned
load_next_changes(dir_exists, files, listing) ==
  IF ~dir_exists THEN Raise("NoChangesFoundError")
  ELSE LET names == Sorted("name", listing)
       IN Return(NewCollection([i \in 1..Len(names) |-> EntryFromDict(files[names[i]])]))

\* random.randint(1, 100000): the one value the model draws; the clock reading
\* alone tells the names of one directory apart
RandomNumbers == {1}

\* the values time.monotonic_ns() may return next: the clock has moved on
ClockReadings == {t \in {clock + 1} : t <= MaxClock}

\* a write_next_release_entry that takes the first name generated
WriteEntryOverwriting(cmd, entry, readings, numbers) ==
  \E t \in readings, r \in numbers :
  LET abs_filename == random_filename(entry, t, r)
  IN /\ clock' = t
     /\ next_release_dir' = TRUE
     /\ next_release' = WriteFile(next_release, abs_filename, EntryToDict(entry))
     /\ staged' = Append(staged, abs_filename)
     /\ UNCHANGED <<release_files, running>>
     /\ last' = [cmd EXCEPT !.ret = 0, !.file = abs_filename]

\* EntryFileWriter.write_next_release_entry: the clock reads t and the random
\* number is r when the loop of _generate_random_file ends, on a name that is
\* not a file of next-release
WriteEntry(cmd, entry, readings, numbers) ==
  \E t \in readings, r \in numbers :
  LET abs_filename == random_filename(entry, t, r)
  IN /\ abs_filename \notin DOMAIN next_release
     /\ clock' = t
     /\ next_release_dir' = TRUE
     /\ next_release' = WriteFile(next_release, abs_filename, EntryToDict(entry))
     /\ staged' = Append(staged, abs_filename)
     /\ UNCHANGED <<release_files, running>>
     /\ last' = [cmd EXCEPT !.ret = 0, !.file = abs_filename]

\* write_next_release_entry under cmd_new_change, each run of the command
\* reading the clock later than the one before
write_next_release_entry(entry) ==
  WriteEntry(Call("new-change"), entry, ClockReadings, RandomNumbers)

\* a write_change_file_entry that does not validate
write_change_file_entry_unchecked(entry, parsed_entry, schema) ==
  write_next_release_entry(complete_entry(entry, parsed_entry))

\* EntryRecorder.write_change_file_entry under cmd_new_change, which turns a
\* ValidationError into the exit status 1
write_change_file_entry(entry, parsed_entry, schema) ==
  LET completed == complete_entry(entry, parsed_entry)
      errors == validate_change_entry(completed, schema)
  IN IF errors # <<>>
     THEN /\ last' = [Call("new-change") EXCEPT
                        !.exc = "ValidationError", !.ret = 1]
          /\ UNCHANGED <<fs, clock, staged, running>>
     ELSE write_next_release_entry(completed)

\* consolidate_next_release
consolidate_next_release(cmd, next_version, changes) ==
  LET release_file == next_version \o DotJson
  IN /\ release_files' = WriteFile(release_files, release_file, CollectionToDict(changes))
     /\ IF next_release_dir
        THEN /\ next_release_dir' = FALSE
             /\ next_release' = NoFiles
             /\ staged' = <<>>
             /\ last' = [cmd EXCEPT !.ret = 0, !.file = release_file,
                                    !.changes = changes.changes,
                                    !.schema_version = changes.schema_version,
                                    !.summary = changes.summary]
        ELSE \* shutil.rmtree of a directory that is not there
             /\ UNCHANGED <<next_release_dir, next_release, staged>>
             /\ last' = [cmd EXCEPT !.exc = "FileNotFoundError"]
     /\ UNCHANGED <<clock, running>>

-----------------------------------------------------------------------------
(* The inputs of the commands *)

TypeArgs == {Empty, bugfix}
CategoryArgs == {Empty, foo}
DescriptionArgs == {Empty, bar}

\* what an editor session may leave in the fields
EditedEntries ==
  {EmptyEntry, JMESLogEntry(feature, a_b, Empty), JMESLogEntry(notafeature, Empty, bar)}

\* --release-version
V190 == <<"1", ".", "9", ".", "0">>
V1100 == <<"1", ".", "1", "0", ".", "0">>
ReleaseVersionArgs == {V190, notes}

-----------------------------------------------------------------------------
(* cli.py: the commands *)

\* cmd_new_change
cmd_new_change ==
  \E type \in TypeArgs, category \in CategoryArgs, description \in DescriptionArgs :
    LET entry == JMESLogEntry(type, category, description)
    IN \E parsed_entry \in (IF is_completed(entry) THEN {EmptyEntry} ELSE EditedEntries) :
         write_change_file_entry(entry, parsed_entry, DefaultSchema)

\* a cmd_new_release that applies the bump of the pending changes to the
\* version given with --release-version
NewReleaseBumpsGiven(explicit, release_version) ==
  \E staged_listing \in Listings(DOMAIN next_release),
     listing \in (IF explicit THEN {<<>>} ELSE Listings(ChangeDirNames)) :
    LET cmd == [Call("new-release") EXCEPT !.auto = ~explicit, !.arg = release_version]
        changes == load_next_changes(next_release_dir, next_release, staged_listing)
        last_released_version ==
          IF explicit THEN Return(release_version) ELSE find_last_released_version(listing)
        next_version ==
          IF last_released_version.exc # "" THEN last_released_version
          ELSE determine_next_version(last_released_version.val,
                                      version_bump_type(changes.val))
    IN IF changes.exc # ""
       THEN /\ last' = [cmd EXCEPT !.exc = changes.exc]
            /\ UNCHANGED <<fs, clock, staged, running>>
       ELSE IF next_version.exc # ""
       THEN /\ last' = [cmd EXCEPT !.exc = next_version.exc]
            /\ UNCHANGED <<fs, clock, staged, running>>
       ELSE consolidate_next_release(cmd, next_version.val, changes.val)

\* cmd_new_release, without --release-version (release_version is None)
\* or with it
NewRelease(explicit, release_version) ==
  \E staged_listing \in Listings(DOMAIN next_release),
     listing \in (IF explicit THEN {<<>>} ELSE Listings(ChangeDirNames)) :
    LET cmd == [Call("new-release") EXCEPT !.auto = ~explicit, !.arg = release_version]
        changes == load_next_changes(next_release_dir, next_release, staged_listing)
        last_released_version == find_last_released_version(listing)
        next_version ==
          IF explicit THEN Return(release_version)
          ELSE IF last_released_version.exc # "" THEN last_released_version
          ELSE determine_next_version(last_released_version.val,
                                      version_bump_type(changes.val))
    IN IF changes.exc # ""
       THEN /\ last' = [cmd EXCEPT !.exc = changes.exc]
            /\ UNCHANGED <<fs, clock, staged, running>>
       ELSE IF next_version.exc # ""
       THEN /\ last' = [cmd EXCEPT !.exc = next_version.exc]
            /\ UNCHANGED <<fs, clock, staged, running>>
       ELSE consolidate_next_release(cmd, next_version.val, changes.val)

cmd_new_release ==
  \/ NewRelease(FALSE, <<>>)
  \/ \E release_version \in ReleaseVersionArgs : NewRelease(TRUE, release_version)

\* ChangeQuery.run_query under cmd_query, which turns a NoChangesFoundError
\* into the exit status 1
QueryFor == {"last-release-version", "next-version", "next-release-type"}

\* what cmd_query makes of the result of run_query
QueryResult(query_for, result) ==
  LET cmd == [Call("query") EXCEPT !.query_for = query_for]
  IN /\ last' =
          IF result.exc = "NoChangesFoundError" THEN [cmd EXCEPT !.exc = result.exc, !.ret = 1]
          ELSE IF result.exc # "" THEN [cmd EXCEPT !.exc = result.exc]
          ELSE IF query_for = "next-release-type" THEN [cmd EXCEPT !.ret = 0, !.bump = result.val]
          ELSE [cmd EXCEPT !.ret = 0, !.value = result.val]
     /\ UNCHANGED <<fs, clock, staged, running>>

\* ChangeQuery.query_last_release_version
query_last_release_version ==
  \E listing \in Listings(ChangeDirNames) :
    QueryResult("last-release-version", find_last_released_version(listing))

\* ChangeQuery.query_next_version
query_next_version ==
  \E staged_listing \in Listings(DOMAIN next_release), listing \in Listings(ChangeDirNames) :
    LET changes == load_next_changes(next_release_dir, next_release, staged_listing)
        last_released_version == find_last_released_version(listing)
    IN QueryResult("next-version",
         IF changes.exc # "" THEN changes
         ELSE IF last_released_version.exc # "" THEN last_released_version
         ELSE determine_next_version(last_released_version.val,
                                     version_bump_type(changes.val)))

\* ChangeQuery.query_next_release_type
query_next_release_type ==
  \E staged_listing \in Listings(DOMAIN next_release) :
    LET changes == load_next_changes(next_release_dir, next_release, staged_listing)
    IN QueryResult("next-release-type",
         IF changes.exc # "" THEN changes ELSE Return(version_bump_type(changes.val)))

cmd_query ==
  \/ query_last_release_version
  \/ query_next_version
  \/ query_next_release_type

\* cmd_pending: a line end, then what render_single_release_changes writes
\* for the pending changes
cmd_pending ==
  \E staged_listing \in Listings(DOMAIN next_release) :
    LET pending_changes == load_next_changes(next_release_dir, next_release, staged_listing)
    IN /\ last' = IF pending_changes.exc # ""
                  THEN [Call("pending") EXCEPT !.exc = pending_changes.exc]
                  ELSE [Call("pending") EXCEPT
                          !.ret = 0, !.changes = pending_changes.val.changes,
                          !.out = <<"\n">>
                                    \o render_single_release_changes(pending_changes.val)]
       /\ UNCHANGED <<fs, clock, staged, running>>

\* --template: none, or the name of a file under templates, a directory the
\* change directory of the model does not have
TemplateArgs == {Empty, notes}

\* cmd_render: what it writes is the default template rendered for the
\* releases in the order in which the template iterates over them
cmd_render ==
  \E listing \in Listings(ChangeDirNames), template \in TemplateArgs :
    LET cmd == [Call("render") EXCEPT !.arg = template]
        changes == load_all_changes(release_files, listing)
    IN /\ last' =
            IF changes.exc # "" THEN [cmd EXCEPT !.exc = changes.exc]
            ELSE IF template # Empty THEN [cmd EXCEPT !.exc = "FileNotFoundError"]
            ELSE LET releases == render_changes(changes.val)
                 IN [cmd EXCEPT !.ret = 0,
                                !.versions = [i \in 1..Len(releases) |-> releases[i][1]],
                                !.out = DEFAULT_RENDER_TEMPLATE(releases)]
       /\ UNCHANGED <<fs, clock, staged, running>>

-----------------------------------------------------------------------------
(* core.py called as a library *)

\* load_next_changes(change_dir)
call_load_next_changes ==
  \E staged_listing \in Listings(DOMAIN next_release) :
    LET changes == load_next_changes(next_release_dir, next_release, staged_listing)
    IN /\ last' = IF changes.exc # ""
                  THEN [Call("load_next_changes") EXCEPT !.exc = changes.exc]
                  ELSE [Call("load_next_changes") EXCEPT
                          !.ret = 0, !.changes = changes.val.changes,
                          !.schema_version = changes.val.schema_version,
                          !.summary = changes.val.summary]
       /\ UNCHANGED <<fs, clock, staged, running>>

\* sorted_versioned_releases(change_dir)
call_sorted_versioned_releases ==
  \E listing \in Listings(ChangeDirNames) :
    LET results == sorted_versioned_releases(listing)
    IN /\ last' = IF results.exc # ""
                  THEN [Call("sorted_versioned_releases") EXCEPT !.exc = results.exc]
                  ELSE [Call("sorted_versioned_releases") EXCEPT
                          !.ret = 0, !.versions = results.val]
       /\ UNCHANGED <<fs, clock, staged, running>>

\* consolidate_next_release(next_version, change_dir, changes) for a collection
\* the caller made of the pending changes
CallerCollections == {[schema_version |-> OLD_SCHEMA_VERSION, summary |-> notes]}

call_consolidate_next_release ==
  \E next_version \in {V1100}, made \in CallerCollections,
     staged_listing \in Listings(DOMAIN next_release) :
    LET pending == load_next_changes(next_release_dir, next_release, staged_listing)
        cmd == [Call("consolidate_next_release") EXCEPT !.arg = next_version]
    IN /\ pending.exc = ""
       /\ consolidate_next_release(
            cmd, next_version,
            JMESLogEntryCollection(pending.val.changes, made.schema_version,
                                   made.summary))

-----------------------------------------------------------------------------
(* The tool at work on one change directory *)

\* after cmd_init: an empty change directory
Init ==
  /\ release_files = NoFiles
  /\ next_release_dir = FALSE
  /\ next_release = NoFiles
  /\ clock = StartClock
  /\ staged = <<>>
  /\ running = NoneRunning
  /\ last = Call("init")

Next ==
  \/ cmd_new_change
  \/ cmd_new_release
  \/ cmd_query
  \/ cmd_pending
  \/ cmd_render
  \/ call_load_next_changes
  \/ call_sorted_versioned_releases
  \/ call_consolidate_next_release

Spec == Init /\ [][Next]_vars

-----------------------------------------------------------------------------
(* The functions of core.py and model.py, each called on its own inputs *)

VersionOf(x, y, z) == Str(x) \o <<".">> \o Str(y) \o <<".">> \o Str(z)

RECURSIVE SeqsUpTo(_, _)
SeqsUpTo(S, n) ==
  IF n = 0 THEN {<<>>}
  ELSE LET shorter == SeqsUpTo(S, n - 1)
       IN shorter \cup {Append(q, x) : q \in shorter, x \in S}

EntryTypes == {feature, bugfix, enhancement}

Schemas ==
  {[type |-> t, category |-> c] :
     t \in {<<>>, <<feature, bugfix>>, DefaultSchema.type}, c \in {<<>>, <<foo>>}}

ValidatedEntries ==
  {JMESLogEntry(t, c, d) :
     t \in {Empty, feature, notafeature}, c \in {Empty, foo, a_b}, d \in {Empty, bar}}

\* what json.load may give from_dict: entry objects, one of them lacking keys
EntryObjects ==
  {EntryToDict(JMESLogEntry(feature, foo, bar)), EntryToDict(JMESLogEntry(bugfix, a_b, bar)),
   [type |-> feature]}

ReleaseInfos ==
  LET lists == SeqsUpTo(EntryObjects, MaxEntries)
  IN {JsonArray(items) : items \in lists}
     \cup {("schema-version" :> sv) @@ ("changes" :> items) :
             sv \in {CURRENT_SCHEMA_VERSION, OLD_SCHEMA_VERSION}, items \in lists}
     \cup {("schema-version" :> sv) @@ ("changes" :> items) @@ ("summary" :> notes) :
             sv \in {CURRENT_SCHEMA_VERSION, OLD_SCHEMA_VERSION}, items \in lists}
     \cup {("changes" :> items) : items \in lists}
     \cup {("schema-version" :> CURRENT_SCHEMA_VERSION) @@ ("summary" :> notes)}

\* the mappings handed to render_changes: the items in insertion order
Mappings ==
  UNION {{[i \in 1..Len(keys) |-> <<keys[i], NewCollection(<<>>)>>] : keys \in Listings(S)} :
           S \in SUBSET {V190, V1100, VersionOf(1, 2, 3)}}

\* descriptions of one line, of two lines, and of one line with its line end
TwoLines == bar \o <<"\n">> \o foo
EndedLine == bar \o <<"\n">>
RenderedDescriptions == {bar, TwoLines, EndedLine}

\* the collections rendered: up to MaxEntries entries, with a summary or not
RenderedCollections ==
  {JMESLogEntryCollection(changes, CURRENT_SCHEMA_VERSION, s) :
     changes \in SeqsUpTo({JMESLogEntry(bugfix, foo, d) : d \in RenderedDescriptions}
                            \cup {JMESLogEntry(feature, a_b, bar)}, MaxEntries),
     s \in {Empty, notes}}

\* mappings of one release with its changes
RenderedMappings == {<<<<V190, c>>>> : c \in RenderedCollections}

\* the collections serialised: up to MaxEntries entries, a schema version the
\* code names or another, with a summary or not
SerialisedCollections ==
  {JMESLogEntryCollection(changes, sv, s) :
     changes \in SeqsUpTo({JMESLogEntry(bugfix, foo, bar), JMESLogEntry(feature, a_b, Empty),
                            JMESLogEntry(feature, foo, TwoLines)}, MaxEntries),
     sv \in {CURRENT_SCHEMA_VERSION, OLD_SCHEMA_VERSION, VersionOf(1, 0, 0)},
     s \in {Empty, notes}}

\* the entries handed to EntryGenerator, each field given or not
GeneratedEntries ==
  {JMESLogEntry(t, c, d) : t \in {Empty, feature}, c \in {Empty, foo}, d \in {Empty, bar}}

\* what the editor session may give back
PromptedEntries ==
  {EmptyEntry, JMESLogEntry(enhancement, a_b, notes), JMESLogEntry(Empty, a_b, Empty),
   JMESLogEntry(bugfix, Empty, notes)}

\* the lines an edited entry file is made of
LineType == <<"t", "y", "p", "e", ":", " ", "b", "u", "g", "f", "i", "x">>
LineTypeAgain == <<"t", "y", "p", "e", ":", "f", "e", "a", "t", "u", "r", "e", " ">>
LineCategory == <<" ", " ", "c", "a", "t", "e", "g", "o", "r", "y", ":", " ", "f", "o", "o">>
LineComment == <<"#", " ", "t", "y", "p", "e", ":", " ", "n", "o", "t", "e", "s">>
LineIndentedComment == <<" ", " ", "#", "c", "a", "t", "e", "g", "o", "r", "y", ":", " ", "b", "a", "r">>
LineBlank == <<" ", " ">>
LineDescription == <<"d", "e", "s", "c", "r", "i", "p", "t", "i", "o", "n", ":", " ", "a", ":", "b">>
LineUnknown == <<"t", "y", "p", "e", "d", ":", " ", "b", "a", "r">>
LineNoValue == <<"t", "y", "p", "e", ":">>

FileLines ==
  {LineType, LineTypeAgain, LineCategory, LineComment, LineIndentedComment,
   LineBlank, LineDescription, LineUnknown, LineNoValue}

\* the contents: the lines joined by line ends, the last line ended or not
FileContents ==
  {[lines |-> lines, contents |-> Join(lines, <<"\n">>) \o end] :
     lines \in SeqsUpTo(FileLines, MaxLines), end \in {<<>>, <<"\n">>}}

\* the calls made: the function and its arguments
LibInputs ==
  {[fn |-> "determine_next_version", x |-> x, y |-> y, z |-> z, bump_type |-> b] :
     x \in 0..MaxPart, y \in 0..MaxPart, z \in 0..MaxPart, b \in VersionBump}
  \cup {[fn |-> "version_bump_type",
         changes |-> [i \in 1..Len(types) |-> JMESLogEntry(types[i], foo, bar)]] :
          types \in SeqsUpTo(EntryTypes, MaxChanges)}
  \cup {[fn |-> "validate_change_entry", entry |-> e, schema |-> sc] :
          e \in ValidatedEntries, sc \in Schemas}
  \cup {[fn |-> "from_dict", release_info |-> r] : r \in ReleaseInfos}
  \cup {[fn |-> "parse_contents", lines |-> c.lines, contents |-> c.contents] :
          c \in FileContents}
  \cup {[fn |-> "complete_entry", entry |-> e, parsed_entry |-> n] :
          e \in GeneratedEntries, n \in PromptedEntries}
  \cup {[fn |-> "render_changes", mapping |-> m] : m \in Mappings \cup RenderedMappings}
  \cup {[fn |-> "render_single_release_changes", change_collection |-> c] :
          c \in RenderedCollections}
  \cup {[fn |-> "to_dict", collection |-> c] : c \in SerialisedCollections}

InitLib ==
  /\ release_files = NoFiles
  /\ next_release_dir = FALSE
  /\ next_release = NoFiles
  /\ clock = StartClock
  /\ staged = <<>>
  /\ running = NoneRunning
  /\ \E input \in LibInputs : last = [Call("call") EXCEPT !.input = input]

Called(fn) == last.cmd = "call" /\ last.input.fn = fn

\* determine_next_version(last_released_version, version_bump_type)
call_determine_next_version ==
  /\ Called("determine_next_version")
  /\ LET in == last.input
         next_version == determine_next_version(VersionOf(in.x, in.y, in.z), in.bump_type)
     IN last' = [Call("determine_next_version") EXCEPT
                   !.input = in,
                   !.exc = next_version.exc,
                   !.ret = IF next_version.exc = "" THEN 0 ELSE -1,
                   !.value = next_version.val]
  /\ UNCHANGED <<fs, clock, staged, running>>

\* JMESLogEntryCollection(changes=...).version_bump_type
call_version_bump_type ==
  /\ Called("version_bump_type")
  /\ last' = [Call("version_bump_type") EXCEPT
                !.input = last.input, !.ret = 0,
                !.bump = version_bump_type(NewCollection(last.input.changes))]
  /\ UNCHANGED <<fs, clock, staged, running>>

\* validate_change_entry(entry, schema)
call_validate_change_entry ==
  /\ Called("validate_change_entry")
  /\ LET errors == validate_change_entry(last.input.entry, last.input.schema)
     IN last' = [Call("validate_change_entry") EXCEPT
                   !.input = last.input,
                   !.exc = IF errors # <<>> THEN "ValidationError" ELSE "",
                   !.ret = IF errors # <<>> THEN -1 ELSE 0,
                   !.errors = errors]
  /\ UNCHANGED <<fs, clock, staged, running>>

\* EntryGenerator(entry, retriever).complete_entry() and then change_entry
call_complete_entry ==
  /\ Called("complete_entry")
  /\ last' = [Call("complete_entry") EXCEPT
                !.input = last.input, !.ret = 0,
                !.called = prompts_entry_values(last.input.entry),
                !.changes = <<complete_entry(last.input.entry, last.input.parsed_entry)>>]
  /\ UNCHANGED <<fs, clock, staged, running>>

\* EntryFileParser().parse_contents(contents)
call_parse_contents ==
  /\ Called("parse_contents")
  /\ last' = [Call("parse_contents") EXCEPT
                !.input = last.input, !.ret = 0,
                !.changes = <<parse_contents(last.input.contents)>>]
  /\ UNCHANGED <<fs, clock, staged, running>>

\* JMESLogEntryCollection.from_dict(release_info)
call_from_dict ==
  /\ Called("from_dict")
  /\ LET collection == from_dict(last.input.release_info)
     IN last' = IF collection.exc # ""
                THEN [Call("from_dict") EXCEPT !.input = last.input, !.exc = collection.exc]
                ELSE [Call("from_dict") EXCEPT
                        !.input = last.input, !.ret = 0,
                        !.changes = collection.val.changes,
                        !.schema_version = collection.val.schema_version,
                        !.summary = collection.val.summary]
  /\ UNCHANGED <<fs, clock, staged, running>>

\* render_changes(changes, out, template_contents)
call_render_changes ==
  /\ Called("render_changes")
  /\ LET releases == render_changes(last.input.mapping)
     IN last' = [Call("render_changes") EXCEPT
                   !.input = last.input, !.ret = 0,
                   !.versions = [i \in 1..Len(releases) |-> releases[i][1]],
                   !.out = DEFAULT_RENDER_TEMPLATE(releases)]
  /\ UNCHANGED <<fs, clock, staged, running>>

\* render_single_release_changes(change_collection, out)
call_render_single_release_changes ==
  /\ Called("render_single_release_changes")
  /\ last' = [Call("render_single_release_changes") EXCEPT
                !.input = last.input, !.ret = 0,
                !.out = render_single_release_changes(last.input.change_collection)]
  /\ UNCHANGED <<fs, clock, staged, running>>

\* JMESLogEntryCollection.from_dict(collection.to_dict())
call_to_dict ==
  /\ Called("to_dict")
  /\ LET result == CollectionToDict(last.input.collection)
         collection == from_dict(result)
     IN last' = IF collection.exc # ""
                THEN [Call("to_dict") EXCEPT
                        !.input = last.input, !.value = result, !.exc = collection.exc]
                ELSE [Call("to_dict") EXCEPT
                        !.input = last.input, !.value = result, !.ret = 0,
                        !.changes = collection.val.changes,
                        !.schema_version = collection.val.schema_version,
                        !.summary = collection.val.summary]
  /\ UNCHANGED <<fs, clock, staged, running>>

NextLib ==
  \/ call_determine_next_version
  \/ call_version_bump_type
  \/ call_validate_change_entry
  \/ call_complete_entry
  \/ call_parse_contents
  \/ call_from_dict
  \/ call_render_changes
  \/ call_render_single_release_changes
  \/ call_to_dict

SpecLib == InitLib /\ [][NextLib]_vars

-----------------------------------------------------------------------------
(* EntryFileWriter called on its own, under a clock that may read the same *)
(* value twice *)

\* time.monotonic_ns() does not go back, and may not have moved on
CoarseClockReadings == {t \in {clock, clock + 1} : t <= MaxClock}

\* random.randint(1, 100000): the two values the model draws
TwoRandomNumbers == {1, 2}

WrittenEntries == {JMESLogEntry(bugfix, foo, bar), JMESLogEntry(bugfix, foo, notes)}

\* EntryFileWriter().write_next_release_entry(entry, change_dir)
call_write_next_release_entry ==
  /\ Cardinality(DOMAIN next_release) < MaxStaged
  /\ \E entry \in WrittenEntries :
       WriteEntry(Call("write_next_release_entry"), entry,
                  CoarseClockReadings, TwoRandomNumbers)

NextStage ==
  \/ call_write_next_release_entry
  \/ call_load_next_changes

SpecStage == Init /\ [][NextStage]_vars

-----------------------------------------------------------------------------
(* A change directory found as it is, with the releases made so far *)

V001 == VersionOf(0, 0, 1)
V011 == VersionOf(0, 1, 1)
V0110 == VersionOf(0, 1, 10)
V123 == VersionOf(1, 2, 3)
V1230 == VersionOf(1, 2, 30)
V1200 == VersionOf(1, 20, 0)

FoundReleases == {V001, V011, V0110, V123, V1230, V190, V1100, V1200, notes}

InitDir ==
  /\ \E versions \in SUBSET FoundReleases, legacy \in BOOLEAN :
       /\ Cardinality(versions) <= MaxDirFiles
       /\ release_files = [f \in {v \o DotJson : v \in versions} |->
                             IF legacy THEN JsonArray(<<>>)
                             ELSE CollectionToDict(NewCollection(<<>>))]
  /\ next_release_dir \in BOOLEAN
  /\ next_release = NoFiles
  /\ clock = StartClock
  /\ staged = <<>>
  /\ running = NoneRunning
  /\ last = Call("init")

NextDir ==
  \/ query_last_release_version
  \/ call_sorted_versioned_releases
  \/ cmd_render

SpecDir == InitDir /\ [][NextDir]_vars

-----------------------------------------------------------------------------
(* Two runs of cmd_new_release side by side on one change directory; a run *)
(* is the calls of cmd_new_release one after the other, and within         *)
(* consolidate_next_release the write of the file and the rmtree           *)

\* the entries pending when the runs start, staged at the last two readings
PendingFiles ==
  (random_filename(JMESLogEntry(bugfix, foo, bar), StartClock - 1, 1)
     :> EntryToDict(JMESLogEntry(bugfix, foo, bar)))
  @@ (random_filename(JMESLogEntry(feature, a_b, bar), StartClock, 1)
        :> EntryToDict(JMESLogEntry(feature, a_b, bar)))

InitRace ==
  /\ \E versions \in SUBSET {V001} :
       release_files = [f \in {v \o DotJson : v \in versions} |->
                          CollectionToDict(NewCollection(<<>>))]
  /\ next_release_dir = TRUE
  /\ \E names \in SUBSET DOMAIN PendingFiles :
       /\ names # {}
       /\ next_release = [f \in names |-> PendingFiles[f]]
       /\ \E listing \in Listings(names) : staged = Sorted("name", listing)
  /\ clock = StartClock
  /\ \E explicit \in [Procs -> BOOLEAN] :
       running = [p \in Procs |->
                    Run("start", explicit[p], IF explicit[p] THEN V190 ELSE <<>>)]
  /\ last = Call("init")

\* changes = core.load_next_changes(args.change_dir)
race_load(p) ==
  /\ running[p].pc = "start"
  /\ \E staged_listing \in Listings(DOMAIN next_release) :
       LET changes == load_next_changes(next_release_dir, next_release, staged_listing)
       IN running' = [running EXCEPT ![p] =
                        IF changes.exc # ""
                        THEN [@ EXCEPT !.pc = "failed", !.exc = changes.exc]
                        ELSE [@ EXCEPT !.pc = "loaded", !.changes = changes.val]]
  /\ UNCHANGED <<fs, clock, staged, last>>

\* next_version = args.release_version, or find_last_released_version and
\* determine_next_version
race_next_version(p) ==
  /\ running[p].pc = "loaded"
  /\ \E listing \in Listings(ChangeDirNames) :
       LET last_released_version == find_last_released_version(listing)
           next_version ==
             IF running[p].explicit THEN Return(running[p].release_version)
             ELSE IF last_released_version.exc # "" THEN last_released_version
             ELSE determine_next_version(last_released_version.val,
                                         version_bump_type(running[p].changes))
       IN running' = [running EXCEPT ![p] =
                        IF next_version.exc # ""
                        THEN [@ EXCEPT !.pc = "failed", !.exc = next_version.exc]
                        ELSE [@ EXCEPT !.pc = "versioned", !.next_version = next_version.val]]
  /\ UNCHANGED <<fs, clock, staged, last>>

\* a write of the release file that writes a collection without the changes
race_write_no_changes(p) ==
  /\ running[p].pc = "versioned"
  /\ LET release_file == running[p].next_version \o DotJson
     IN /\ release_files' = WriteFile(release_files, release_file,
                                      CollectionToDict(NewCollection(<<>>)))
        /\ running' = [running EXCEPT ![p] =
                         [@ EXCEPT !.pc = "written", !.release_file = release_file]]
  /\ UNCHANGED <<next_release_dir, next_release, clock, staged, last>>

\* consolidate_next_release: the release file is written
race_write(p) ==
  /\ running[p].pc = "versioned"
  /\ LET release_file == running[p].next_version \o DotJson
     IN /\ release_files' = WriteFile(release_files, release_file,
                                      CollectionToDict(running[p].changes))
        /\ running' = [running EXCEPT ![p] =
                         [@ EXCEPT !.pc = "written", !.release_file = release_file]]
  /\ UNCHANGED <<next_release_dir, next_release, clock, staged, last>>

\* consolidate_next_release: shutil.rmtree(next_release_dir), which raises
\* FileNotFoundError when the directory is not there
race_rmtree(p) ==
  /\ running[p].pc = "written"
  /\ IF next_release_dir
     THEN /\ next_release_dir' = FALSE
          /\ next_release' = NoFiles
          /\ staged' = <<>>
          /\ running' = [running EXCEPT ![p] = [@ EXCEPT !.pc = "done"]]
     ELSE /\ UNCHANGED <<next_release_dir, next_release, staged>>
          /\ running' = [running EXCEPT ![p] =
                           [@ EXCEPT !.pc = "failed", !.exc = "FileNotFoundError"]]
  /\ UNCHANGED <<release_files, clock, last>>

NextRace ==
  \E p \in Procs :
    \/ race_load(p)
    \/ race_next_version(p)
    \/ race_write(p)
    \/ race_rmtree(p)

SpecRace == InitRace /\ [][NextRace]_vars

-----------------------------------------------------------------------------
(* Two runs of write_next_release_entry side by side on one change          *)
(* directory; a run is the system calls of the method one after the other:  *)
(* isdir, mkdir, the loop of _generate_random_file with its isfile, and the *)
(* open and write                                                           *)

\* a run of write_next_release_entry: where it is (pc), its entry, the name
\* _generate_random_file returned and the exception that ended it
Staging(pc, entry) ==
  [pc |-> pc, entry |-> entry, abs_filename |-> <<>>, exc |-> ""]

StagedSideBySide ==
  {JMESLogEntry(bugfix, foo, bar), JMESLogEntry(bugfix, foo, notes),
   JMESLogEntry(feature, a_b, bar)}

InitCoStage ==
  /\ release_files = NoFiles
  /\ next_release_dir \in BOOLEAN
  /\ next_release = NoFiles
  /\ clock = StartClock
  /\ staged = <<>>
  /\ \E entry \in [Procs -> StagedSideBySide] :
       running = [p \in Procs |-> Staging("start", entry[p])]
  /\ last = Call("init")

\* _create_next_release_dir: os.path.isdir(next_release)
stage_isdir(p) ==
  /\ running[p].pc = "start"
  /\ running' = [running EXCEPT ![p] =
                   [@ EXCEPT !.pc = IF next_release_dir THEN "dir" ELSE "mkdir"]]
  /\ UNCHANGED <<fs, clock, staged, last>>

\* _create_next_release_dir: os.mkdir(next_release), which raises
\* FileExistsError when the directory is there by now
stage_mkdir(p) ==
  /\ running[p].pc = "mkdir"
  /\ IF next_release_dir
     THEN /\ running' = [running EXCEPT ![p] =
                           [@ EXCEPT !.pc = "failed", !.exc = "FileExistsError"]]
          /\ UNCHANGED next_release_dir
     ELSE /\ running' = [running EXCEPT ![p] = [@ EXCEPT !.pc = "dir"]]
          /\ next_release_dir' = TRUE
  /\ UNCHANGED <<release_files, next_release, clock, staged, last>>

\* _generate_random_file: the loop ends on a name for which os.path.isfile
\* is false; the clock reads t and the random number is r
stage_generate_random_file(p) ==
  /\ running[p].pc = "dir"
  /\ \E t \in CoarseClockReadings, r \in TwoRandomNumbers :
       LET possible_filename == random_filename(running[p].entry, t, r)
       IN /\ possible_filename \notin DOMAIN next_release
          /\ clock' = t
          /\ running' = [running EXCEPT ![p] =
                           [@ EXCEPT !.pc = "named", !.abs_filename = possible_filename]]
  /\ UNCHANGED <<fs, staged, last>>

\* an open and write that leaves the file without the entry
stage_write_nothing(p) ==
  /\ running[p].pc = "named"
  /\ next_release' = WriteFile(next_release, running[p].abs_filename,
                               EntryToDict(EmptyEntry))
  /\ staged' = Append(staged, running[p].abs_filename)
  /\ running' = [running EXCEPT ![p] = [@ EXCEPT !.pc = "done"]]
  /\ UNCHANGED <<release_files, next_release_dir, clock, last>>

\* with open(abs_filename, 'w') as f: f.write(entry.to_json())
stage_write(p) ==
  /\ running[p].pc = "named"
  /\ next_release' = WriteFile(next_release, running[p].abs_filename,
                               EntryToDict(running[p].entry))
  /\ staged' = Append(staged, running[p].abs_filename)
  /\ running' = [running EXCEPT ![p] = [@ EXCEPT !.pc = "done"]]
  /\ UNCHANGED <<release_files, next_release_dir, clock, last>>

NextCoStage ==
  \E p \in Procs :
    \/ stage_isdir(p)
    \/ stage_mkdir(p)
    \/ stage_generate_random_file(p)
    \/ stage_write(p)

SpecCoStage == InitCoStage /\ [][NextCoStage]_vars

-----------------------------------------------------------------------------
(* One run of cmd_new_release in which the calls of consolidate_next_release *)
(* may fail: open, write and shutil.rmtree raise OSError when the operating  *)
(* system refuses; the exception propagates and ends the run                 *)

\* a file opened with 'w' and not written: nothing in it
Truncated == <<>>

InitConsolidate ==
  /\ \E versions \in SUBSET {V001} :
       release_files = [f \in {v \o DotJson : v \in versions} |->
                          CollectionToDict(NewCollection(<<>>))]
  /\ next_release_dir = TRUE
  /\ \E names \in SUBSET DOMAIN PendingFiles :
       /\ names # {}
       /\ next_release = [f \in names |-> PendingFiles[f]]
       /\ \E listing \in Listings(names) : staged = Sorted("name", listing)
  /\ clock = StartClock
  /\ \E explicit \in BOOLEAN, release_version \in ReleaseVersionArgs :
       running = [p \in Procs |->
                    IF p = 1
                    THEN Run("start", explicit, IF explicit THEN release_version ELSE <<>>)
                    ELSE Run("idle", FALSE, <<>>)]
  /\ last = Call("init")

\* a consolidate_next_release that removes next-release before it opens the
\* release file
consolidate_rmtree_first(p) ==
  /\ running[p].pc = "versioned"
  /\ next_release_dir' = FALSE
  /\ next_release' = NoFiles
  /\ staged' = <<>>
  /\ running' = [running EXCEPT ![p] =
                   [@ EXCEPT !.pc = "opened",
                             !.release_file = running[p].next_version \o DotJson]]
  /\ UNCHANGED <<release_files, clock, last>>

\* consolidate_next_release: open(release_file, 'w') creates the file or
\* truncates it, or raises
consolidate_open(p) ==
  /\ running[p].pc = "versioned"
  /\ LET release_file == running[p].next_version \o DotJson
     IN \/ /\ release_files' = WriteFile(release_files, release_file, Truncated)
           /\ running' = [running EXCEPT ![p] =
                            [@ EXCEPT !.pc = "opened", !.release_file = release_file]]
        \/ /\ UNCHANGED release_files
           /\ running' = [running EXCEPT ![p] =
                            [@ EXCEPT !.pc = "failed", !.exc = "OSError"]]
  /\ UNCHANGED <<next_release_dir, next_release, clock, staged, last>>

\* consolidate_next_release: the writes and the close at the end of the with
\* block put json.dumps(changes.to_dict()) into the file, or raise and leave
\* it as it was opened
consolidate_write(p) ==
  /\ running[p].pc = "opened"
  /\ \/ /\ release_files' = WriteFile(release_files, running[p].release_file,
                                      CollectionToDict(running[p].changes))
        /\ running' = [running EXCEPT ![p] = [@ EXCEPT !.pc = "written"]]
     \/ /\ UNCHANGED release_files
        /\ running' = [running EXCEPT ![p] =
                         [@ EXCEPT !.pc = "failed", !.exc = "OSError"]]
  /\ UNCHANGED <<next_release_dir, next_release, clock, staged, last>>

\* consolidate_next_release: shutil.rmtree(next_release_dir) removes the
\* files and then the directory, or raises after it removed some of the
\* files (kept is what is left)
consolidate_rmtree(p) ==
  /\ running[p].pc = "written"
  /\ \/ /\ next_release_dir' = FALSE
        /\ next_release' = NoFiles
        /\ staged' = <<>>
        /\ running' = [running EXCEPT ![p] = [@ EXCEPT !.pc = "done"]]
     \/ \E kept \in SUBSET DOMAIN next_release :
          LET IsKept(f) == f \in kept
          IN /\ UNCHANGED next_release_dir
             /\ next_release' = [f \in kept |-> next_release[f]]
             /\ staged' = SelectSeq(staged, IsKept)
             /\ running' = [running EXCEPT ![p] =
                              [@ EXCEPT !.pc = "failed", !.exc = "OSError"]]
  /\ UNCHANGED <<release_files, clock, last>>

NextConsolidate ==
  \/ race_load(1)
  \/ race_next_version(1)
  \/ consolidate_open(1)
  \/ consolidate_write(1)
  \/ consolidate_rmtree(1)

SpecConsolidate == InitConsolidate /\ [][NextConsolidate]_vars

-----------------------------------------------------------------------------
(* The tool used in sequence on a fresh change directory: new-change, and   *)
(* new-release without --release-version                                    *)

cmd_new_release_automatic == NewRelease(FALSE, <<>>)

NextSequential ==
  \/ cmd_new_change
  \/ cmd_new_release_automatic

SpecSequential == Init /\ [][NextSequential]_vars

-----------------------------------------------------------------------------
(* What the claims are stated with *)

\* the names of the release files, without the suffix
Released == {StripJson(f) : f \in DOMAIN release_files}

\* a name of the form major.minor.patch
IsNumbered(v) ==
  LET p == Split(v, ".") IN Len(p) = 3 /\ \A i \in 1..3 : IsNumeral(p[i])

Triple(v) == LET p == Split(v, ".") IN <<ToInt(p[1]), ToInt(p[2]), ToInt(p[3])>>

\* major, then minor, then patch, as numbers
TripleLess(a, b) ==
  \/ a[1] < b[1]
  \/ a[1] = b[1] /\ a[2] < b[2]
  \/ a[1] = b[1] /\ a[2] = b[2] /\ a[3] < b[3]

\* the place of a staged file among the staged files, by name
Rank(files, f) == 1 + Cardinality({g \in DOMAIN files : StrLess(g, f)})

Consolidated == last.cmd \in {"new-release", "consolidate_next_release"} /\ last.ret = 0

ReleaseHolds(tag) ==
  /\ ~next_release_dir
  /\ next_release = NoFiles
  /\ ~last.auto => last.file = last.arg \o DotJson
  /\ last.file \in DOMAIN release_files
  /\ LET data == release_files[last.file]
     IN /\ Len(data["changes"]) = Len(last.changes)
        /\ \A i \in 1..Len(last.changes) :
             /\ data["changes"][i].type = last.changes[i].type
             /\ data["changes"][i].category = last.changes[i].category
             /\ data["changes"][i].description = last.changes[i].description
        /\ data["schema-version"] = tag

-----------------------------------------------------------------------------
(* The claims *)

\* C1, as stated: whenever consolidate_next_release returns, next-release is
\* gone and <version>.json holds every entry of the collection, in order,
\* with 'schema-version' equal to '0.2'.
C1_TagIsCurrent == Consolidated => ReleaseHolds(<<"0", ".", "2">>)

\* C1, amended: whenever consolidate_next_release returns, next-release is
\* gone and <version>.json holds every entry of the collection, in order,
\* with 'schema-version' equal to the collection's schema_version.
C1_TagIsTheCollections == Consolidated => ReleaseHolds(last.schema_version)

C1_Witness ==
  /\ Consolidated
  /\ last.cmd = "consolidate_next_release"
  /\ last.schema_version = <<"0", ".", "1">>
  /\ Len(last.changes) >= 2
  /\ release_files[last.file]["schema-version"] = <<"0", ".", "1">>

\* the release an automatic new-release is to write, from the directory as
\* the command finds it
LastTriple ==
  IF Released = {} THEN <<0, 0, 0>>
  ELSE CHOOSE t \in {Triple(v) : v \in Released} :
         \A v \in Released : Triple(v) = t \/ TripleLess(Triple(v), t)

PendingFeature == \E f \in DOMAIN next_release : next_release[f].type = feature

ExpectedRelease ==
  IF PendingFeature THEN VersionOf(LastTriple[1], LastTriple[2] + 1, 0)
  ELSE VersionOf(LastTriple[1], LastTriple[2], LastTriple[3] + 1)

\* C2: a new-release run without --release-version writes the file named by
\* the next version after the last released one, bumped MINOR when a pending
\* entry is a feature and PATCH otherwise; in an empty change directory that
\* is 0.1.0.json with a feature pending and 0.0.1.json without.
C2_AutomaticRelease ==
  [][(last'.cmd = "new-release" /\ last'.auto /\ last'.ret = 0) =>
       /\ last'.file = ExpectedRelease \o DotJson
       /\ last'.file \in DOMAIN release_files'
       /\ release_files = NoFiles =>
            last'.file = IF PendingFeature
                         THEN <<"0", ".", "1", ".", "0", ".", "j", "s", "o", "n">>
                         ELSE <<"0", ".", "0", ".", "1", ".", "j", "s", "o", "n">>]_vars

C2_Witness ==
  /\ last.cmd = "new-release" /\ last.auto /\ last.ret = 0
  /\ last.file = <<"0", ".", "1", ".", "0", ".", "j", "s", "o", "n">>
  /\ DOMAIN release_files = {last.file}
  /\ Len(last.changes) = 1

\* C3: load_next_changes returns the staged entries in the order in which
\* they were staged (the clock readings in the names are strictly increasing).
C3_StagingOrder ==
  (last.cmd = "load_next_changes" /\ last.ret = 0) =>
    last.changes = [i \in 1..Len(staged) |-> EntryFromDict(next_release[staged[i]])]

\* C4: find_last_released_version returns the greatest released version, major
\* then minor then patch compared as numbers, and 0.0.0 when there is no
\* release file (the release files being named major.minor.patch).
C4_LastReleased ==
  (last.cmd = "query" /\ last.query_for = "last-release-version"
     /\ \A v \in Released : IsNumbered(v)) =>
    /\ last.exc = "" /\ last.ret = 0
    /\ IF Released = {} THEN last.value = <<"0", ".", "0", ".", "0">>
       ELSE /\ last.value \in Released
            /\ \A v \in Released \ {last.value} : TripleLess(Triple(v), Triple(last.value))

C4_Witness ==
  /\ last.cmd = "query" /\ last.query_for = "last-release-version"
  /\ {V190, V1100, V1230} = Released
  /\ last.value = <<"1", ".", "1", "0", ".", "0">>

\* C5: whatever the change directory holds, sorted_versioned_releases returns
\* exactly the names of the files named major.minor.patch.json, without the
\* suffix, in ascending version order.
C5_OnlyVersionFiles ==
  last.cmd = "sorted_versioned_releases" =>
    /\ last.exc = ""
    /\ {last.versions[i] : i \in 1..Len(last.versions)} = {v \in Released : IsNumbered(v)}
    /\ \A i, j \in 1..Len(last.versions) :
         i < j => TripleLess(Triple(last.versions[i]), Triple(last.versions[j]))

\* C6: determine_next_version of X.Y.Z is X.Y.(Z+1) for PATCH, X.(Y+1).0 for
\* MINOR and (X+1).0.0 for MAJOR, without carry: 1.9.0 MINOR gives 1.10.0.
C6_NextVersion ==
  last.cmd = "determine_next_version" =>
    LET in == last.input
    IN /\ last.exc = ""
       /\ last.value =
            CASE in.bump_type = PATCH_VERSION -> VersionOf(in.x, in.y, in.z + 1)
              [] in.bump_type = MINOR_VERSION -> VersionOf(in.x, in.y + 1, 0)
              [] in.bump_type = MAJOR_VERSION -> VersionOf(in.x + 1, 0, 0)
       /\ (in.x = 1 /\ in.y = 9 /\ in.z = 0 /\ in.bump_type = MINOR_VERSION) =>
            last.value = <<"1", ".", "1", "0", ".", "0">>
       /\ (in.x = 1 /\ in.y = 1 /\ in.z = 9 /\ in.bump_type = PATCH_VERSION) =>
            last.value = <<"1", ".", "1", ".", "1", "0">>

C6_Witness ==
  /\ last.cmd = "determine_next_version"
  /\ last.input.x = 1 /\ last.input.y = 9 /\ last.input.z = 0
  /\ last.input.bump_type = MINOR_VERSION
  /\ last.value = <<"1", ".", "1", "0", ".", "0">>

\* C7: version_bump_type is MINOR exactly when some entry, at any position, is
\* a feature, PATCH otherwise (the empty collection too), and never MAJOR.
C7_BumpType ==
  last.cmd = "version_bump_type" =>
    LET changes == last.input.changes
        some_feature == \E i \in 1..Len(changes) : changes[i].type = feature
    IN /\ last.bump = MINOR_VERSION <=> some_feature
       /\ last.bump = PATCH_VERSION <=> ~some_feature
       /\ last.bump # MAJOR_VERSION

C7_Witness ==
  /\ last.cmd = "version_bump_type"
  /\ Len(last.input.changes) = 3
  /\ last.input.changes[1].type = feature
  /\ last.input.changes[3].type = bugfix
  /\ last.bump = MINOR_VERSION

\* the violations of an entry, rule by rule
NotAllowed(entry, schema, field) ==
  IF schema[field] # <<>>
     /\ \A i \in 1..Len(schema[field]) : schema[field][i] # entry[field]
  THEN <<MustBeOneOf(field, schema[field], entry[field])>>
  ELSE <<>>

Blank(entry, field) == IF Len(entry[field]) = 0 THEN <<CannotBeEmpty(field)>> ELSE <<>>

\* C8: validate_change_entry raises ValidationError exactly when there is a
\* violation, and carries every violation: a 'must be one of' for type, then
\* category, where the allowed list is not empty and lacks the value, then a
\* 'cannot be empty' for each empty field of type, category, description.
C8_AllViolations ==
  last.cmd = "validate_change_entry" =>
    LET entry == last.input.entry
        schema == last.input.schema
    IN /\ last.errors = NotAllowed(entry, schema, "type")
                        \o NotAllowed(entry, schema, "category")
                        \o Blank(entry, "type") \o Blank(entry, "category")
                        \o Blank(entry, "description")
       /\ last.exc = "ValidationError" <=> last.errors # <<>>
       /\ last.exc = "" <=> last.ret = 0

C8_Witness ==
  /\ last.cmd = "validate_change_entry"
  /\ last.exc = "ValidationError"
  /\ Len(last.errors) = 5

\* an entry the default schema accepts
Accepted(data) ==
  /\ data.type \in {feature, bugfix, enhancement}
  /\ data.category # <<>>
  /\ data.description # <<>>

\* C9: when the entry fails validation, write_change_file_entry raises
\* ValidationError, nothing changes on disk and cmd_new_change returns 1;
\* otherwise it writes one file, and every staged file holds an entry with
\* no empty field and an allowed type.
C9_ValidatedBeforeStaged ==
  [][last'.cmd = "new-change" =>
       IF last'.exc = "ValidationError"
       THEN last'.ret = 1 /\ fs' = fs
       ELSE /\ last'.exc = "" /\ last'.ret = 0
            /\ next_release_dir'
            /\ DOMAIN next_release' = DOMAIN next_release \cup {last'.file}
            /\ last'.file \notin DOMAIN next_release
            /\ \A f \in DOMAIN next_release' : Accepted(next_release'[f])]_vars

C9_Witness ==
  /\ last.cmd = "new-change"
  /\ last.exc = "ValidationError"
  /\ last.ret = 1
  /\ Cardinality(DOMAIN next_release) = 2

\* C10: load_next_changes raises NoChangesFoundError exactly when next-release
\* does not exist, and changes nothing on disk; otherwise it returns one entry
\* per staged file, in sorted file name order, with the current schema version
\* and an empty summary.
C10_LoadNextChanges ==
  [][last'.cmd = "load_next_changes" =>
       /\ fs' = fs
       /\ last'.exc = "NoChangesFoundError" <=> ~next_release_dir
       /\ last'.exc = "" <=> next_release_dir
       /\ next_release_dir =>
            /\ Len(last'.changes) = Cardinality(DOMAIN next_release)
            /\ \A f \in DOMAIN next_release :
                 last'.changes[Rank(next_release, f)] = EntryFromDict(next_release[f])
            /\ last'.schema_version = <<"0", ".", "2">>
            /\ last'.summary = <<>>]_vars

C10_Witness ==
  /\ last.cmd = "load_next_changes"
  /\ last.ret = 0
  /\ Len(last.changes) = 3
  /\ last.changes[1].type # last.changes[2].type

\* the commands of the command line
Commands == {"new-change", "new-release", "query", "pending"}

\* C11: a ValidationError or NoChangesFoundError met by a command is turned
\* into a failure report and a non-zero exit status; it does not propagate.
C11_CaughtAtBoundary ==
  (last.cmd \in Commands /\ last.exc \in {"ValidationError", "NoChangesFoundError"}) =>
    last.ret >= 1

\* C12: a new-release with --release-version v writes exactly v.json, whatever
\* the releases made so far and the types of the pending entries, with one
\* entry per staged file, leaves the other release files alone and removes
\* next-release.
C12_ExplicitVersion ==
  [][(last'.cmd = "new-release" /\ ~last'.auto /\ last'.ret = 0) =>
       /\ last'.file = last'.arg \o DotJson
       /\ DOMAIN release_files' = DOMAIN release_files \cup {last'.file}
       /\ \A f \in DOMAIN release_files \ {last'.file} : release_files'[f] = release_files[f]
       /\ Len(release_files'[last'.file]["changes"]) = Cardinality(DOMAIN next_release)
       /\ \A f \in DOMAIN next_release :
            release_files'[last'.file]["changes"][Rank(next_release, f)] = next_release[f]
       /\ next_release_dir /\ ~next_release_dir' /\ next_release' = NoFiles]_vars

C12_Witness ==
  /\ last.cmd = "new-release" /\ ~last.auto /\ last.ret = 0
  /\ last.arg = <<"1", ".", "9", ".", "0">>
  /\ \E i \in 1..Len(last.changes) : last.changes[i].type = feature
  /\ DOMAIN release_files = {<<"0", ".", "0", ".", "1", ".", "j", "s", "o", "n">>,
                             <<"1", ".", "9", ".", "0", ".", "j", "s", "o", "n">>}

\* C13: once a release file is written, no later command changes its content
\* or removes it.
C13_ReleasesImmutable ==
  [][last'.cmd \in Commands =>
       \A f \in DOMAIN release_files :
         f \in DOMAIN release_files' /\ release_files'[f] = release_files[f]]_vars

\* C14: render_changes hands the releases to the template in descending
\* version order, whatever the order of the mapping.
C14_Descending ==
  last.cmd = "render_changes" =>
    \A i, j \in 1..Len(last.versions) :
      i < j => TripleLess(Triple(last.versions[j]), Triple(last.versions[i]))

\* a list of entry objects with the three fields each
EntryObjectList(items) == \A i \in 1..Len(items) : IsEntryObject(items[i])

SameEntries(changes, items) ==
  /\ Len(changes) = Len(items)
  /\ \A i \in 1..Len(items) :
       /\ changes[i].type = items[i].type
       /\ changes[i].category = items[i].category
       /\ changes[i].description = items[i].description

\* C15: from_dict of a bare array of entry objects returns a collection with
\* schema_version '0.1', summary '' and the entries in array order; of the
\* object form it returns the stored 'schema-version', the 'changes' in
\* order and the 'summary', or '' without that key.
C15_FromDict ==
  last.cmd = "from_dict" =>
    LET release_info == last.input.release_info
    IN IF DOMAIN release_info = {"array"}
       THEN EntryObjectList(release_info.array) =>
              /\ last.exc = "" /\ last.ret = 0
              /\ last.schema_version = <<"0", ".", "1">>
              /\ last.summary = <<>>
              /\ SameEntries(last.changes, release_info.array)
       ELSE ({"schema-version", "changes"} \subseteq DOMAIN release_info
               /\ EntryObjectList(release_info["changes"])) =>
              /\ last.exc = "" /\ last.ret = 0
              /\ last.schema_version = release_info["schema-version"]
              /\ last.summary = IF "summary" \in DOMAIN release_info
                                THEN release_info["summary"] ELSE <<>>
              /\ SameEntries(last.changes, release_info["changes"])

C15_Witness ==
  /\ last.cmd = "from_dict"
  /\ DOMAIN last.input.release_info = {"array"}
  /\ Len(last.input.release_info.array) = 2
  /\ last.ret = 0
  /\ last.changes[1].type # last.changes[2].type
  /\ last.schema_version = <<"0", ".", "1">>

\* C16: write_next_release_entry writes a file that was not in next-release:
\* each call adds exactly one file, leaves the files staged before as they
\* were, and leaves next-release existing, whether it existed or not.
C16_NeverOverwrites ==
  [][(last'.cmd = "write_next_release_entry" /\ last'.ret = 0) =>
       /\ last'.file \notin DOMAIN next_release
       /\ DOMAIN next_release' = DOMAIN next_release \cup {last'.file}
       /\ Cardinality(DOMAIN next_release') = Cardinality(DOMAIN next_release) + 1
       /\ \A f \in DOMAIN next_release : next_release'[f] = next_release[f]
       /\ next_release_dir'
       /\ release_files' = release_files]_vars

\* two entries of the same type and category staged at the same clock reading
C16_Witness ==
  /\ last.cmd = "write_next_release_entry" /\ last.ret = 0
  /\ last.file = <<"8", "-", "b", "u", "g", "f", "i", "x", "-", "f", "o", "o", "-", "2",
                   ".", "j", "s", "o", "n">>
  /\ <<"8", "-", "b", "u", "g", "f", "i", "x", "-", "f", "o", "o", "-", "1",
       ".", "j", "s", "o", "n">> \in DOMAIN next_release
  /\ next_release[last.file] # next_release[<<"8", "-", "b", "u", "g", "f", "i", "x", "-",
                                              "f", "o", "o", "-", "1", ".", "j", "s", "o", "n">>]

\* C17: complete_entry calls the editor exactly when the entry is not
\* complete, that is when one of type, category, description is empty; a
\* complete entry is left as it was.
C17_PromptsIfIncomplete ==
  last.cmd = "complete_entry" =>
    LET entry == last.input.entry
        complete == entry.type # <<>> /\ entry.category # <<>> /\ entry.description # <<>>
    IN /\ last.called <=> ~complete
       /\ complete => last.changes = <<entry>>

C17_Witness ==
  /\ last.cmd = "complete_entry"
  /\ ~last.called
  /\ last.input.entry.category = foo
  /\ last.input.parsed_entry.category = a_b
  /\ last.changes[1].category = foo

\* C18: of what the editor gives back, a non-empty field replaces the field of
\* the entry and an empty field leaves it as it was.
C18_NonEmptyOverwrites ==
  (last.cmd = "complete_entry" /\ last.called) =>
    LET entry == last.input.entry
        new_entry == last.input.parsed_entry
        result == last.changes[1]
    IN /\ result.type = IF new_entry.type # <<>> THEN new_entry.type ELSE entry.type
       /\ result.category =
            IF new_entry.category # <<>> THEN new_entry.category ELSE entry.category
       /\ result.description =
            IF new_entry.description # <<>> THEN new_entry.description ELSE entry.description

C18_Witness ==
  /\ last.cmd = "complete_entry" /\ last.called
  /\ last.input.entry = JMESLogEntry(feature, foo, <<>>)
  /\ last.input.parsed_entry = JMESLogEntry(<<>>, a_b, <<>>)
  /\ last.changes = <<JMESLogEntry(feature, a_b, <<>>)>>

\* the lines that give a field: after the leading spaces, the name and a colon
FieldLines(lines, name) ==
  {i \in 1..Len(lines) : StartsWith(LStrip(lines[i]), FieldName(name) \o <<":">>)}

\* the value the last of these lines gives, '' without such a line
LastValue(lines, name) ==
  IF FieldLines(lines, name) = {} THEN <<>>
  ELSE LET i == CHOOSE k \in FieldLines(lines, name) :
                  \A j \in FieldLines(lines, name) : j <= k
           line == LStrip(lines[i])
       IN Strip(SubSeq(line, Len(FieldName(name)) + 2, Len(line)))

\* C19: parse_contents gives each field the stripped value of the last line
\* that starts with the field's name and a colon, '' without such a line;
\* blank lines, comment lines and lines with other names change nothing.
C19_ParseContents ==
  last.cmd = "parse_contents" =>
    LET lines == last.input.lines
        entry == last.changes[1]
    IN /\ entry.type = LastValue(lines, "type")
       /\ entry.category = LastValue(lines, "category")
       /\ entry.description = LastValue(lines, "description")
       /\ (\A i \in 1..Len(lines) :
             lines[i] \in {LineComment, LineIndentedComment, LineBlank, LineUnknown})
            => entry = JMESLogEntry(<<>>, <<>>, <<>>)

C19_Witness ==
  /\ last.cmd = "parse_contents"
  /\ last.input.lines = <<LineType, LineComment, LineTypeAgain>>
  /\ last.changes[1].type = feature

\* the run has written its release file
HasWritten(p) ==
  running[p].pc \in {"written", "done"} \/ running[p].exc = "FileNotFoundError"

\* C20: two new-release runs side by side are not kept apart. Each run that
\* gets to write puts the pending entries it loaded into its release file,
\* whatever the other run has done, and a run fails at the removal of
\* next-release only when the other run has removed it; so the same staged
\* entries can end in two release files, and a run can fail at the removal.
C20_RunsNotKeptApart ==
  \A p \in Procs :
    /\ HasWritten(p) =>
         /\ running[p].changes.changes # <<>>
         /\ running[p].release_file \in DOMAIN release_files
         /\ SameEntries(running[p].changes.changes,
                        release_files[running[p].release_file]["changes"])
    /\ running[p].exc = "FileNotFoundError" =>
         \E q \in Procs \ {p} : running[q].pc = "done"

\* both runs wrote the same two entries, into two release files, and the
\* second failed at the removal
C20_Witness ==
  /\ running[1].pc = "done"
  /\ running[2].pc = "failed" /\ running[2].exc = "FileNotFoundError"
  /\ running[1].release_file # running[2].release_file
  /\ Len(running[1].changes.changes) = 2
  /\ release_files[running[1].release_file]["changes"]
       = release_files[running[2].release_file]["changes"]

\* the runs of write_next_release_entry that have returned
StagingDone == {p \in Procs : running[p].pc = "done"}

\* C21: two runs of write_next_release_entry side by side are not kept apart.
\* The name a run chose is a file of next-release once the run has returned,
\* and a file holds the entry of a run that chose its name; the files number
\* as many as the names chosen, so two runs that chose the same name leave one
\* file, and it holds the entry of the run that wrote last.
C21_StagingNotSerialized ==
  /\ \A p \in StagingDone : running[p].abs_filename \in DOMAIN next_release
  /\ \A f \in DOMAIN next_release :
       \E p \in StagingDone :
         /\ running[p].abs_filename = f
         /\ next_release[f]["description"] = running[p].entry.description
         /\ next_release[f]["type"] = running[p].entry.type
         /\ next_release[f]["category"] = running[p].entry.category
  /\ Cardinality(DOMAIN next_release)
       = Cardinality({running[p].abs_filename : p \in StagingDone})
  /\ Len(staged) = Cardinality(StagingDone)

\* both runs returned, with the same name, and the one file left holds the
\* entry of the second run only
C21_Witness ==
  /\ StagingDone = Procs
  /\ running[1].abs_filename = running[2].abs_filename
  /\ running[1].entry.description = bar
  /\ running[2].entry.description = notes
  /\ Len(staged) = 2
  /\ Cardinality(DOMAIN next_release) = 1
  /\ next_release[running[1].abs_filename]["description"] = notes

\* the bullet of an entry: '* {type}:{category}:{description}', each line end
\* of the description followed by two spaces
Bullet(change) ==
  <<"*", " ">> \o change.type \o <<":">> \o change.category \o <<":">>
    \o Join(Split(change.description, "\n"), <<"\n", " ", " ">>)

\* the bullets of the entries, in order, each one ended (before = FALSE) or
\* begun (before = TRUE) by a line end
RECURSIVE Bullets(_, _)
Bullets(changes, before) ==
  IF changes = <<>> THEN <<>>
  ELSE (IF before THEN <<"\n">> \o Bullet(Head(changes))
        ELSE Bullet(Head(changes)) \o <<"\n">>)
         \o Bullets(Tail(changes), before)

\* a line end of the description is embedded: no description ends with one
EmbeddedOnly(changes) ==
  \A i \in 1..Len(changes) : ~EndsWith(changes[i].description, <<"\n">>)

\* C22: the default template and render_single_release_changes write the
\* same bullet for an entry, '* {type}:{category}:{description}' with two
\* spaces after each embedded line end of the description; the pending
\* preview is the bullets of the entries in order and no version header.
C22_SameBullets ==
  /\ (/\ last.cmd = "render_single_release_changes"
      /\ EmbeddedOnly(last.input.change_collection.changes)) =>
       last.out = Bullets(last.input.change_collection.changes, FALSE) \o <<"\n", "\n">>
  /\ (/\ last.cmd = "render_changes"
      /\ Len(last.input.mapping) = 1
      /\ EmbeddedOnly(last.input.mapping[1][2].changes)) =>
       LET release == last.input.mapping[1][1]
           changes == last.input.mapping[1][2]
       IN last.out = TemplateBanner \o <<"\n">> \o release \o <<"\n">> \o Underline(release)
                       \o (IF changes.summary # <<>> THEN <<"\n">> \o changes.summary
                           ELSE <<>>)
                       \o <<"\n">> \o Bullets(changes.changes, TRUE) \o <<"\n", "\n">>

\* C23: from_dict(to_dict(c)) is c: the same entries in the same order, the
\* same schema version, the same summary; to_dict(c) has the keys
\* 'schema-version' and 'changes', and the key 'summary' exactly when the
\* summary of c is not empty.
C23_RoundTrip ==
  last.cmd = "to_dict" =>
    LET c == last.input.collection
        result == last.value
    IN /\ last.exc = "" /\ last.ret = 0
       /\ Len(last.changes) = Len(c.changes)
       /\ \A i \in 1..Len(c.changes) :
            /\ last.changes[i].type = c.changes[i].type
            /\ last.changes[i].category = c.changes[i].category
            /\ last.changes[i].description = c.changes[i].description
       /\ last.schema_version = c.schema_version
       /\ last.summary = c.summary
       /\ {"schema-version", "changes"} \subseteq DOMAIN result
       /\ DOMAIN result \subseteq {"schema-version", "changes", "summary"}
       /\ ("summary" \in DOMAIN result) <=> (c.summary # <<>>)
       /\ result["schema-version"] = c.schema_version
       /\ SameEntries(c.changes, result["changes"])

\* a collection of two entries in the old format's tag, with a summary
C23_Witness ==
  /\ last.cmd = "to_dict" /\ last.ret = 0
  /\ Len(last.input.collection.changes) = 2
  /\ last.input.collection.changes[1] # last.input.collection.changes[2]
  /\ last.input.collection.schema_version = <<"0", ".", "1">>
  /\ last.input.collection.summary = notes
  /\ last.value["summary"] = notes
  /\ last.schema_version = <<"0", ".", "1">>

\* the release file of the run holds every entry the run loaded, in order
ReleaseWritten ==
  /\ running[1].release_file \in DOMAIN release_files
  /\ DOMAIN release_files[running[1].release_file] # {}
  /\ SameEntries(running[1].changes.changes,
                 release_files[running[1].release_file]["changes"])

\* next-release holds every entry the run loaded, each in a file of its own
StagingUntouched ==
  /\ next_release_dir
  /\ Cardinality(DOMAIN next_release) = Len(running[1].changes.changes)
  /\ \A i \in 1..Len(running[1].changes.changes) :
       \E f \in DOMAIN next_release :
         /\ next_release[f]["type"] = running[1].changes.changes[i].type
         /\ next_release[f]["category"] = running[1].changes.changes[i].category
         /\ next_release[f]["description"] = running[1].changes.changes[i].description

\* the run is in consolidate_next_release, or was ended by it
InConsolidate ==
  \/ running[1].pc \in {"versioned", "opened", "written", "done"}
  \/ running[1].pc = "failed" /\ running[1].exc = "OSError"

\* C24: consolidate_next_release writes the release file before it removes
\* next-release. In every state of the operation, a failure included, the
\* staged entries are all in next-release or all in the release file;
\* next-release is touched only once the release file is written, so the one
\* state of partial completion is the release file written with next-release
\* still there; and a failed write or removal ends the operation: no step
\* follows it and no step is taken twice.
C24_WriteBeforeRemoval ==
  /\ [](InConsolidate =>
         /\ StagingUntouched \/ ReleaseWritten
         /\ ~ReleaseWritten => running[1].pc \in {"versioned", "opened", "failed"}
         /\ (ReleaseWritten /\ next_release_dir) => running[1].pc \in {"written", "failed"}
         /\ ~next_release_dir => running[1].pc = "done")
  /\ [][/\ running[1].pc = "failed" => fs' = fs
        /\ fs' # fs => <<running[1].pc, running'[1].pc>> \in
                         {<<"versioned", "opened">>, <<"opened", "written">>,
                          <<"written", "done">>, <<"written", "failed">>}]_vars

\* the removal failed after it removed one of two staged files: the release
\* file holds both entries and next-release is still there
C24_Witness ==
  /\ running[1].pc = "failed" /\ running[1].exc = "OSError"
  /\ ReleaseWritten
  /\ next_release_dir
  /\ Len(running[1].changes.changes) = 2
  /\ Cardinality(DOMAIN next_release) = 1

\* the entries of the staged files, in the order in which they were staged
StagedEntries == [i \in 1..Len(staged) |-> next_release[staged[i]]]

\* C25: under new-change and automatic new-release alone, from the empty
\* change directory, no entry is lost or duplicated. A successful new-change
\* adds one file to next-release and leaves every other file as it was; a
\* successful new-release adds one release file, whose entries are the
\* entries staged since the release before, in staging order, empties
\* next-release and leaves every other release file as it was; a command that
\* fails changes nothing.
C25_Conservation ==
  [][/\ (last'.cmd = "new-change" /\ last'.ret = 0) =>
          /\ last'.file \notin DOMAIN next_release
          /\ DOMAIN next_release' = DOMAIN next_release \cup {last'.file}
          /\ \A f \in DOMAIN next_release : next_release'[f] = next_release[f]
          /\ release_files' = release_files
     /\ (last'.cmd = "new-release" /\ last'.ret = 0) =>
          /\ last'.file \notin DOMAIN release_files
          /\ DOMAIN release_files' = DOMAIN release_files \cup {last'.file}
          /\ \A f \in DOMAIN release_files : release_files'[f] = release_files[f]
          /\ SameEntries(StagedEntries, release_files'[last'.file]["changes"])
          /\ ~next_release_dir'
          /\ DOMAIN next_release' = {}
     /\ last'.ret # 0 => fs' = fs]_vars

\* v is greater than every released version, as major, minor, patch numbers
AboveReleased(v) ==
  IsNumbered(v) /\ \A r \in Released : TripleLess(Triple(r), Triple(v))

\* C26: in a change directory whose release files are all named
\* major.minor.patch, the version query next-version gives, and the version
\* an automatic new-release writes, is greater than every released version;
\* so the release file an automatic new-release writes is a new file, every
\* release file there was is left as it was, and the versions of successive
\* automatic releases increase.
C26_AboveEveryRelease ==
  /\ []((/\ last.cmd = "query" /\ last.query_for = "next-version" /\ last.ret = 0
         /\ \A r \in Released : IsNumbered(r)) =>
          AboveReleased(last.value))
  /\ [][(/\ last'.cmd = "new-release" /\ last'.auto /\ last'.ret = 0
         /\ \A r \in Released : IsNumbered(r)) =>
          /\ AboveReleased(StripJson(last'.file))
          /\ last'.file \notin DOMAIN release_files
          /\ DOMAIN release_files' = DOMAIN release_files \cup {last'.file}
          /\ \A f \in DOMAIN release_files : release_files'[f] = release_files[f]]_vars

\* 1.9.0 and 1.10.0 released, and the automatic release after them is 1.10.1
C26_Witness ==
  /\ last.cmd = "new-release" /\ last.auto /\ last.ret = 0
  /\ last.file = <<"1", ".", "1", "0", ".", "1", ".", "j", "s", "o", "n">>
  /\ Released = {<<"1", ".", "9", ".", "0">>, <<"1", ".", "1", "0", ".", "0">>,
                 <<"1", ".", "1", "0", ".", "1">>}

\* the call reads the pending changes: load_next_changes, new-release,
\* pending, query next-version or query next-release-type
ReadsPending(call) ==
  \/ call.cmd \in {"load_next_changes", "new-release", "pending"}
  \/ call.cmd = "query" /\ call.query_for \in {"next-version", "next-release-type"}

\* C27: a successful new-release leaves nothing pending, and nothing is
\* pending until a new-change succeeds. As long as nothing is pending,
\* load_next_changes, new-release, pending and the queries next-version and
\* next-release-type raise NoChangesFoundError and leave the change directory
\* as it is; so a second new-release after the first releases nothing.
C27_NothingPendingAfterRelease ==
  /\ []((last.cmd = "new-release" /\ last.ret = 0) =>
          ~next_release_dir /\ DOMAIN next_release = {})
  /\ [][/\ (~next_release_dir /\ ReadsPending(last')) =>
             /\ last'.exc = "NoChangesFoundError"
             /\ last'.ret # 0
             /\ fs' = fs
        /\ (~next_release_dir /\ next_release_dir') =>
             last'.cmd = "new-change" /\ last'.ret = 0]_vars

\* a new-release after a release was made, with nothing staged since
C27_Witness ==
  /\ last.cmd = "new-release"
  /\ last.exc = "NoChangesFoundError"
  /\ Cardinality(DOMAIN release_files) = 1
  /\ ~next_release_dir
  /\ staged = <<>>

=============================================================================
